---- MODULE Spec2Model ----
(***************************************************************************)
(* The ring queue of queue.c / queue.h: two `struct Queue` objects (the    *)
(* `queues[2]` of cli.c, `queue1`/`queue2` of queue-test.c) driven by the  *)
(* engine's operations.  Every call is one step (Spec).                    *)
(* The command line program of cli.c over the files .queue1 and .queue2:   *)
(* every invocation of main is one step (SpecCli, SpecCliFiles).           *)
(***************************************************************************)
EXTENDS Integers, Sequences, FiniteSets, TLC

(* --- bounds ----------------------------------------------------------- *)
\* -DQUEUE_MAX_LENGTH=<n>: the capacity is a build parameter (configure.h).
QUEUE_MAX_LENGTH == 4
\* uint32_t inputs are drawn from 1..MaxValue; 0 is the memset fill.
MaxValue == 2
\* Number of calls made on the two queues in one run.
MaxOps == 6
\* Number of invocations of the command line program in one run.
MaxRuns == 3

(* --- program constants ------------------------------------------------ *)
SizeofUint32 == 4
\* configure.h
QUEUE_MODE_FIFO == 1
QUEUE_MODE_LIFO == 2
\* The default build: #define QUEUE_MODE QUEUE_MODE_LIFO.
QUEUE_MODE == QUEUE_MODE_LIFO

Values == 1 .. MaxValue
Slots == 0 .. (QUEUE_MAX_LENGTH - 1)
QueueIds == {0, 1}
\* An out-parameter the callee did not write, a malloc'ed cell not yet written,
\* the result of a void function: a value no uint32_t, no index and no return
\* code (0, -1) takes.
Unset == 0 - 2

VARIABLES
    queues,       \* queues[k] = [begin, size, array]: struct Queue
    ref,          \* ref[k]: the reference_array a test would compare with
    op,           \* the last call made
    qi,           \* the queue it was made on
    arg,          \* its input (the pushed or searched value, the index; for
                  \* queue_copy_to: 1 if the call before was the same copy)
    rc,           \* its return code (0, -1; Unset for a void function)
    value,        \* its `uint32_t *value` out-parameter
    index,        \* its `unsigned *index` out-parameter
    destination,  \* the test_array filled by queue_copy_to
    crashed,      \* the process was aborted
    nops,         \* calls made so far
    run,          \* run[k]: the caller's record of its current run of pushes
                  \* on queue k and of the pops that followed them
    expect,       \* the value that record predicts for the last pop
    files,        \* files[k]: the bytes of .queue1 / .queue2, or NoFile
    loaded,       \* main's queues[2] when the last command was dispatched
    status,       \* the exit status of the last invocation of main
    stdout,       \* the numbers the last invocation printed
    mode          \* the QUEUE_MODE the program was built with

vars == <<queues, ref, op, qi, arg, rc, value, index, destination, crashed, nops,
          run, expect, files, loaded, status, stdout, mode>>

(* --- queue.c ----------------------------------------------------------- *)

\* queue_init: size = 0, begin = 0, array zero-filled.
queue_init == [begin |-> 0, size |-> 0, array |-> [i \in Slots |-> 0]]

\* queue_get_value: array[(begin + index) % QUEUE_MAX_LENGTH].
queue_get_value(queue, i) == queue.array[(queue.begin + i) % QUEUE_MAX_LENGTH]

\* The logical sequence of a queue, offset 0 first (1-based as a TLA+ sequence).
Logical(queue) == [i \in 1 .. queue.size |-> queue_get_value(queue, i - 1)]

\* (mutant) begin decremented with no wrap from 0 to the last slot.
push_back_begin_nowrap(queue) == queue.begin - 1

\* queue_push_back, the success path (size /= QUEUE_MAX_LENGTH).
push_back_begin(queue) ==
    IF queue.begin = 0 THEN QUEUE_MAX_LENGTH - 1 ELSE queue.begin - 1

\* (mutant) the value written before begin is moved, into the old begin slot.
queue_push_back_write_first(queue, v) ==
    [begin |-> push_back_begin(queue), size |-> queue.size + 1,
     array |-> [queue.array EXCEPT ![queue.begin] = v]]

queue_push_back(queue, v) ==
    LET b == push_back_begin(queue) IN
    [begin |-> b, size |-> queue.size + 1, array |-> [queue.array EXCEPT ![b] = v]]

\* (mutant) the capacity test lets a full queue through.
push_back_full_late(queue) == queue.size > QUEUE_MAX_LENGTH

push_back_full(queue) == queue.size = QUEUE_MAX_LENGTH

\* queue_pop_back, the success path (size /= 0).
pop_back_empty(queue) == queue.size = 0

\* (mutant) begin advanced with no wrap from the last slot to 0.
pop_back_begin_nowrap(queue) == queue.begin + 1

pop_back_begin(queue) ==
    IF queue.begin = QUEUE_MAX_LENGTH - 1 THEN 0 ELSE queue.begin + 1

\* (mutant) the value read after begin was advanced.
pop_back_value_after(queue) ==
    queue.array[IF queue.begin = QUEUE_MAX_LENGTH - 1 THEN 0 ELSE queue.begin + 1]

pop_back_value(queue) == queue.array[queue.begin]

queue_pop_back(queue) ==
    [queue EXCEPT !.begin = pop_back_begin(queue), !.size = queue.size - 1]

\* (mutant) the value read at offset size, one past the last element.
pop_front_value_past(queue) == queue.array[(queue.begin + queue.size) % QUEUE_MAX_LENGTH]

\* queue_pop_front, the success path (size /= 0).
pop_front_value(queue) == queue_get_value(queue, queue.size - 1)

queue_pop_front(queue) == [queue EXCEPT !.size = queue.size - 1]

\* (mutant) the emptiness test never fires.
pop_front_empty_never(queue) == queue.size < 0

pop_front_empty(queue) == queue.size = 0

\* queue_get_value: assert(index < queue->size).
get_value_asserts(queue, i) == i < queue.size

\* queue_remove: assert(index < queue->size).
remove_asserts(queue, k) == k < queue.size

\* A loop `for (i = 0; i != queue->size; ++i) .. queue_get_value(queue, i)`
\* (queue_find, the print commands, cli_find_bit, save_queue): every
\* assertion it meets holds.
reads_assert(queue) ==
    \A i \in 0 .. (queue.size - 1) : get_value_asserts(queue, i)

\* (mutant) the scan runs over all QUEUE_MAX_LENGTH slots, not the first size.
queue_find_all_slots(queue, v) ==
    LET hits == {i \in Slots : queue_get_value(queue, i) = v}
    IN  IF hits = {} THEN Unset ELSE CHOOSE i \in hits : \A j \in hits : i <= j

\* (mutant) the last offset holding v, not the first.
queue_find_last(queue, v) ==
    LET hits == {i \in 0 .. (queue.size - 1) : queue_get_value(queue, i) = v}
    IN  IF hits = {} THEN Unset ELSE CHOOSE i \in hits : \A j \in hits : j <= i

\* queue_find: the first i in 0 .. size-1 with queue_get_value(queue, i) = v.
RECURSIVE find_loop(_, _, _)
find_loop(queue, v, i) ==
    IF i = queue.size THEN Unset
    ELSE IF queue_get_value(queue, i) = v THEN i
    ELSE find_loop(queue, v, i + 1)

queue_find(queue, v) == find_loop(queue, v, 0)

\* queue_remove: size -= 1, then the shifting loop over _i.
RECURSIVE remove_loop(_, _, _)
remove_loop(array, i, end) ==
    IF i = end THEN array
    ELSE remove_loop(
            [array EXCEPT ![i % QUEUE_MAX_LENGTH] = array[(i + 1) % QUEUE_MAX_LENGTH]],
            i + 1, end)

\* (mutant) size decremented, nothing shifted.
queue_remove_no_shift(queue, k) == [queue EXCEPT !.size = queue.size - 1]

queue_remove(queue, k) ==
    LET size == queue.size - 1 IN
    [queue EXCEPT !.size = size,
                  !.array = remove_loop(queue.array, queue.begin + k, queue.begin + size)]

\* queue_copy_to: one memcpy, or two when the range passes the end of the array.
memcpy_from(array, from, len) == [i \in 1 .. len |-> array[from + i - 1]]

\* (mutant) only the first memcpy, up to the end of the array.
queue_copy_to_one_run(queue) ==
    memcpy_from(queue.array, queue.begin,
                IF queue.begin + queue.size <= QUEUE_MAX_LENGTH
                THEN queue.size ELSE QUEUE_MAX_LENGTH - queue.begin)

queue_copy_to(queue) ==
    IF queue.begin + queue.size <= QUEUE_MAX_LENGTH
    THEN memcpy_from(queue.array, queue.begin, queue.size)
    ELSE LET first_portion_len == QUEUE_MAX_LENGTH - queue.begin
             second_portion_len == queue.size + queue.begin - QUEUE_MAX_LENGTH
         IN  memcpy_from(queue.array, queue.begin, first_portion_len)
             \o memcpy_from(queue.array, 0, second_portion_len)

\* queue_merge.  total_len, min_queue and max_queue as computed on entry.
merge_total_len(queue_into, queue2) == queue_into.size + queue2.size

min_queue(queue_into, queue2) ==
    IF queue_into.size < queue2.size THEN queue_into ELSE queue2

max_queue(queue_into, queue2) ==
    IF queue_into.size >= queue2.size THEN queue_into ELSE queue2

\* malloc(total_len): the number of BYTES asked for.
malloc_bytes(total_len) == total_len

\* The first loop: new_queue_array[2i] and [2i + 1], i = 0 .. min_queue.size - 1.
RECURSIVE merge_zip_loop(_, _, _, _, _)
merge_zip_loop(buf, queue_into, queue2, i, end) ==
    IF i = end THEN buf
    ELSE merge_zip_loop(
            [buf EXCEPT ![2 * i] = queue_get_value(queue_into, i),
                        ![2 * i + 1] = queue_get_value(queue2, i)],
            queue_into, queue2, i + 1, end)

\* The second loop: new_queue_array[min_queue.size + i], i = min .. max - 1.
RECURSIVE merge_rest_loop(_, _, _, _, _)
merge_rest_loop(buf, maxq, minsize, i, end) ==
    IF i = end THEN buf
    ELSE merge_rest_loop([buf EXCEPT ![minsize + i] = queue_get_value(maxq, i)],
                         maxq, minsize, i + 1, end)

\* new_queue_array after both loops; a cell no loop wrote stays Unset.
new_queue_array(queue_into, queue2) ==
    LET total_len == merge_total_len(queue_into, queue2)
        minq == min_queue(queue_into, queue2)
        maxq == max_queue(queue_into, queue2)
        fresh == [j \in 0 .. (total_len - 1) |-> Unset]
        zipped == merge_zip_loop(fresh, queue_into, queue2, 0, minq.size)
    IN  merge_rest_loop(zipped, maxq, minq.size, minq.size, maxq.size)

\* The cells of new_queue_array the loops write and the memcpy reads are
\* 0 .. total_len - 1, each SizeofUint32 bytes wide; the block holds
\* malloc_bytes(total_len) bytes.  Some access lies outside the block:
merge_overflows(total_len) ==
    \E j \in 0 .. (total_len - 1) : (j + 1) * SizeofUint32 > malloc_bytes(total_len)

\* queue_into after begin = 0, size = total_len and the memcpy.
merge_into(queue_into, queue2) ==
    LET total_len == merge_total_len(queue_into, queue2)
        buf == new_queue_array(queue_into, queue2)
    IN  [begin |-> 0, size |-> total_len,
         array |-> [i \in Slots |-> IF i < total_len THEN buf[i] ELSE queue_into.array[i]]]

\* queue2 after size = 0.
merge_other(queue2) == [queue2 EXCEPT !.size = 0]

\* queue_merge: assert(total_len <= QUEUE_MAX_LENGTH).
merge_asserts(total_len) == total_len <= QUEUE_MAX_LENGTH

\* (mutant) no check before queue_merge.
cli_merge_rejects_never(q) == FALSE

\* (mutant) each size tested against the capacity, not their sum.
cli_merge_rejects_each(q) ==
    q[0].size >= QUEUE_MAX_LENGTH \/ q[1].size >= QUEUE_MAX_LENGTH

\* cli_merge_queues: the command layer's check before queue_merge.
cli_merge_rejects(q) == q[0].size + q[1].size >= QUEUE_MAX_LENGTH

(* --- cli.c: the queue files ---------------------------------------------- *)

\* fopen(file_name, "r") returned NULL: no sequence of bytes.
NoFile == <<0 - 1>>

\* fwrite(&value, sizeof(uint32_t), 1, f): the four bytes of the object, least
\* significant first (a little-endian host).
ToBytes(v) ==
    <<v % 256, (v \div 256) % 256, (v \div 65536) % 256, (v \div 16777216) % 256>>

\* fread(&value, sizeof(uint32_t), 1, f) of four bytes, on the same host.
FromBytes(b) == b[1] + 256 * b[2] + 65536 * b[3] + 16777216 * b[4]

\* (mutant) the slots written in storage order: array[i], not queue_get_value.
save_queue_physical(queue) ==
    [j \in 1 .. (SizeofUint32 * queue.size) |->
        ToBytes(queue.array[((j - 1) \div SizeofUint32) % QUEUE_MAX_LENGTH])
               [((j - 1) % SizeofUint32) + 1]]

\* save_queue's loop: for (i = 0; i != queue->size; ++i) fwrite(get_value(i)).
RECURSIVE save_loop(_, _)
save_loop(queue, i) ==
    IF i = queue.size THEN <<>>
    ELSE ToBytes(queue_get_value(queue, i)) \o save_loop(queue, i + 1)

\* void save_queue(const struct Queue *queue, const char *file_name): the
\* content of the file after fopen(.., "w"), the loop and fclose.
save_queue(queue) == save_loop(queue, 0)

\* Number of whole uint32_t objects load_queue's fread calls return.
load_count(file) == Len(file) \div SizeofUint32

\* load_queue's loop: fread until it fails, queue->array[counter] = value.  A
\* counter past the array is a write outside it (see load_overflows).
RECURSIVE load_loop(_, _, _)
load_loop(file, counter, array) ==
    IF counter = load_count(file) THEN array
    ELSE load_loop(file, counter + 1,
                   IF counter \in Slots
                   THEN [array EXCEPT ![counter] =
                            FromBytes(SubSeq(file, SizeofUint32 * counter + 1,
                                             SizeofUint32 * counter + SizeofUint32))]
                   ELSE array)

\* load_queue has no bound on counter: a file of more than QUEUE_MAX_LENGTH
\* values is stored past the end of queue->array.
load_overflows(file) == load_count(file) > QUEUE_MAX_LENGTH

\* static void load_queue(struct Queue *queue, const char *file_name), the
\* file opened: the slots the loop does not write keep what `queue` held.
load_queue(queue, file) ==
    [begin |-> 0, size |-> load_count(file), array |-> load_loop(file, 0, queue.array)]

(* --- the reference: a plain, non-circular sequence --------------------- *)

RefPush(r, v) == <<v>> \o r
RefPopBack(r) == Tail(r)
RefPopFront(r) == SubSeq(r, 1, Len(r) - 1)
\* r without its element at 0-based offset k.
RefRemove(r, k) == SubSeq(r, 1, k) \o SubSeq(r, k + 2, Len(r))
\* The zipper of the help text: a[1], b[1], a[2], b[2], ..., then the rest
\* of the longer one.
RECURSIVE RefZipper(_, _)
RefZipper(a, b) ==
    IF a = <<>> THEN b
    ELSE IF b = <<>> THEN a
    ELSE <<Head(a), Head(b)>> \o RefZipper(Tail(a), Tail(b))

(* --- the caller's record of a push / pop round trip --------------------- *)

\* base: the queue's size when the run of pushes began; pushed: v1 .. vk;
\* popb, popf: how many pop_back / pop_front calls followed them.
NoRun(size) == [base |-> size, pushed |-> <<>>, popb |-> 0, popf |-> 0]

RunPush(r, size, v) ==
    IF r.popb = 0 /\ r.popf = 0
    THEN [r EXCEPT !.pushed = Append(r.pushed, v)]
    ELSE [base |-> size, pushed |-> <<v>>, popb |-> 0, popf |-> 0]

\* v1 .. vk then j < k pop_backs: the next pop_back is due v(k-j).
InLifoRun(r) == r.popf = 0 /\ r.popb < Len(r.pushed)
ExpectBack(r) == IF InLifoRun(r) THEN r.pushed[Len(r.pushed) - r.popb] ELSE Unset
RunPopBack(r, size) ==
    IF InLifoRun(r) THEN [r EXCEPT !.popb = r.popb + 1] ELSE NoRun(size)

\* From empty, v1 .. vk then j < k pop_fronts: the next pop_front is due v(j+1).
InFifoRun(r) == r.base = 0 /\ r.popb = 0 /\ r.popf < Len(r.pushed)
ExpectFront(r) == IF InFifoRun(r) THEN r.pushed[r.popf + 1] ELSE Unset
RunPopFront(r, size) ==
    IF InFifoRun(r) THEN [r EXCEPT !.popf = r.popf + 1] ELSE NoRun(size)

(* --- the calls ---------------------------------------------------------- *)

Init ==
    /\ queues = [k \in QueueIds |-> queue_init]
    /\ ref = [k \in QueueIds |-> <<>>]
    /\ op = "init"
    /\ qi = 0
    /\ arg = Unset
    /\ rc = Unset
    /\ value = Unset
    /\ index = Unset
    /\ destination = <<>>
    /\ crashed = FALSE
    /\ nops = 0
    /\ run = [k \in QueueIds |-> NoRun(0)]
    /\ expect = Unset
    /\ files = [k \in QueueIds |-> NoFile]
    /\ loaded = [k \in QueueIds |-> queue_init]
    /\ status = Unset
    /\ stdout = <<>>
    /\ mode = QUEUE_MODE

Alive == ~crashed /\ nops < MaxOps

\* What every call leaves behind: its name, its queue, its input and outputs.
\* Out-parameters are fresh locals of the caller (`uint32_t value;`,
\* `unsigned index;`, a malloc'ed test_array), Unset unless the callee writes.
Call(name, k, a, r, v, ix, d) ==
    /\ op' = name
    /\ qi' = k
    /\ arg' = a
    /\ rc' = r
    /\ value' = v
    /\ index' = ix
    /\ destination' = d
    /\ nops' = nops + 1
    /\ UNCHANGED <<files, loaded, status, stdout, mode>>

\* int queue_push_back(struct Queue *queue, uint32_t value)
PushBack(k, v) ==
    /\ Alive
    /\ IF push_back_full(queues[k])
       THEN /\ Call("push_back", k, v, -1, Unset, Unset, <<>>)
            /\ UNCHANGED <<queues, ref, crashed, run>>
       ELSE /\ queues' = [queues EXCEPT ![k] = queue_push_back(queues[k], v)]
            /\ ref' = [ref EXCEPT ![k] = RefPush(ref[k], v)]
            /\ run' = [run EXCEPT ![k] = RunPush(run[k], queues[k].size, v)]
            /\ Call("push_back", k, v, 0, Unset, Unset, <<>>)
            /\ UNCHANGED crashed
    /\ expect' = Unset

\* int queue_pop_back(struct Queue *queue, uint32_t *value)
PopBack(k) ==
    /\ Alive
    /\ IF pop_back_empty(queues[k])
       THEN /\ Call("pop_back", k, Unset, -1, Unset, Unset, <<>>)
            /\ UNCHANGED <<queues, ref, crashed, run>>
       ELSE /\ queues' = [queues EXCEPT ![k] = queue_pop_back(queues[k])]
            /\ ref' = [ref EXCEPT ![k] = RefPopBack(ref[k])]
            /\ run' = [run EXCEPT ![k] = RunPopBack(run[k], queues'[k].size)]
            /\ Call("pop_back", k, Unset, 0, pop_back_value(queues[k]), Unset, <<>>)
            /\ UNCHANGED crashed
    /\ expect' = ExpectBack(run[k])

\* int queue_pop_front(struct Queue *queue, uint32_t *value)
PopFront(k) ==
    /\ Alive
    /\ IF pop_front_empty(queues[k])
       THEN /\ Call("pop_front", k, Unset, -1, Unset, Unset, <<>>)
            /\ UNCHANGED <<queues, ref, crashed, run>>
       ELSE /\ queues' = [queues EXCEPT ![k] = queue_pop_front(queues[k])]
            /\ ref' = [ref EXCEPT ![k] = RefPopFront(ref[k])]
            /\ run' = [run EXCEPT ![k] = RunPopFront(run[k], queues'[k].size)]
            /\ Call("pop_front", k, Unset, 0, pop_front_value(queues[k]), Unset, <<>>)
            /\ UNCHANGED crashed
    /\ expect' = ExpectFront(run[k])

\* int queue_find(const struct Queue *queue, uint32_t value, unsigned *index)
Find(k, v) ==
    /\ Alive
    /\ LET found == queue_find(queues[k], v) IN
       IF found = Unset
       THEN Call("find", k, v, -1, Unset, Unset, <<>>)
       ELSE Call("find", k, v, 0, Unset, found, <<>>)
    /\ expect' = Unset
    /\ UNCHANGED <<queues, ref, crashed, run>>

\* void queue_remove(struct Queue *queue, unsigned index), called as its
\* contract asks: index < queue->size.
Remove(k, ix) ==
    /\ Alive
    /\ ix < queues[k].size
    /\ queues' = [queues EXCEPT ![k] = queue_remove(queues[k], ix)]
    /\ ref' = [ref EXCEPT ![k] = RefRemove(ref[k], ix)]
    /\ run' = [run EXCEPT ![k] = NoRun(queues'[k].size)]
    /\ expect' = Unset
    /\ Call("remove", k, ix, Unset, Unset, Unset, <<>>)
    /\ UNCHANGED crashed

\* CHECK_QUEUE's test_array: malloc(len * sizeof(uint32_t)), every cell of it
\* holding whatever the heap held (garbage), then the cells the copy wrote.
test_array(len, garbage, copied) ==
    [i \in 1 .. len |-> IF i <= Len(copied) THEN copied[i] ELSE garbage]

\* void queue_copy_to(const struct Queue *queue, uint32_t *destination), into
\* a fresh test_array of queue->size cells (CHECK_QUEUE).  The call's `arg` is
\* 1 when the call before it was a queue_copy_to of the same queue, else 0.
CopyTo(k) ==
    /\ Alive
    /\ \E garbage \in {0, MaxValue} :
          Call("copy_to", k, IF op = "copy_to" /\ qi = k THEN 1 ELSE 0,
               Unset, Unset, Unset,
               test_array(queues[k].size, garbage, queue_copy_to(queues[k])))
    /\ expect' = Unset
    /\ UNCHANGED <<queues, ref, crashed, run>>

\* The body of queue_merge(&queues[0], &queues[1]) past its assertion.  When an
\* access to new_queue_array lies outside the malloc'ed block the behaviour is
\* undefined: the neighbouring heap bytes take the values and give them back
\* (the call returns as if the block were large enough), or the process is
\* killed, at the access or when the allocator meets the damage in free(),
\* that is before or after queue_into and queue2 were assigned.
MergeBody(name, r) ==
    LET total_len == merge_total_len(queues[0], queues[1])
        merged == [queues EXCEPT ![0] = merge_into(queues[0], queues[1]),
                                 ![1] = merge_other(queues[1])]
        zipped == [ref EXCEPT ![0] = RefZipper(ref[0], ref[1]), ![1] = <<>>]
    IN  /\ \/ /\ queues' = merged
              /\ ref' = zipped
              /\ Call(name, 0, Unset, r, Unset, Unset, <<>>)
              /\ UNCHANGED crashed
           \/ /\ merge_overflows(total_len)
              /\ crashed' = TRUE
              /\ \/ UNCHANGED <<queues, ref>>
                 \/ queues' = merged /\ ref' = zipped
              /\ Call(name, 0, Unset, Unset, Unset, Unset, <<>>)
        /\ run' = [k \in QueueIds |-> NoRun(queues'[k].size)]
        /\ expect' = Unset

\* void queue_merge(struct Queue *queue_into, struct Queue *queue2), called as
\* its contract asks (test_merge): total_len <= QUEUE_MAX_LENGTH.
Merge ==
    /\ Alive
    /\ merge_total_len(queues[0], queues[1]) <= QUEUE_MAX_LENGTH
    /\ MergeBody("merge", Unset)

\* static int cli_merge_queues(struct Queue queues[2])
CliMergeQueues ==
    /\ Alive
    /\ IF cli_merge_rejects(queues)
       THEN /\ Call("cli_merge", 0, Unset, -1, Unset, Unset, <<>>)
            /\ expect' = Unset
            /\ UNCHANGED <<queues, ref, crashed, run>>
       ELSE MergeBody("cli_merge", 0)

Next ==
    \/ \E k \in QueueIds, v \in Values : PushBack(k, v)
    \/ \E k \in QueueIds : PopBack(k)
    \/ \E k \in QueueIds : PopFront(k)
    \/ \E k \in QueueIds, v \in Values : Find(k, v)
    \/ \E k \in QueueIds, ix \in Slots : Remove(k, ix)
    \/ \E k \in QueueIds : CopyTo(k)
    \/ Merge
    \/ CliMergeQueues

Spec == Init /\ [][Next]_vars

(* --- cli.c: the commands -------------------------------------------------- *)

\* argv + 1 of main: <<command, args...>>, every string given as the number
\* strtol / strtoull make of it.  The <bit> arguments tried:
Bits == {0, 1, 32, 33}
QueueArgs == {1, 2, 3}

\* int cli_command_from_arg(const char *arg)
cli_command_from_arg(a) == IF a < 0 \/ a > 6 THEN -1 ELSE a

\* int cli_get_queue_number(const char *arg)
cli_get_queue_number(a) == IF a # 1 /\ a # 2 THEN -1 ELSE a - 1

\* What a command handler leaves: its return value, main's queues[2], the
\* numbers printed, the dequeued value, and whether the process was killed.
Outcome(r, q, out, v) ==
    [rc |-> r, queues |-> q, out |-> out, value |-> v, killed |-> FALSE,
     asserted |-> FALSE]

\* An assertion of queue.c failed in the handler: abort().
Asserted(q) ==
    [Outcome(Unset, q, <<>>, Unset) EXCEPT !.killed = TRUE, !.asserted = TRUE]

Failed(q) == Outcome(-1, q, <<>>, Unset)

\* int cli_add_to_queue(int argc, char **argv, struct Queue queues[2])
cli_add_to_queue(argv, q) ==
    IF Len(argv) < 3 THEN {Failed(q)}
    ELSE LET queue_number == cli_get_queue_number(argv[2]) IN
         IF queue_number = -1 THEN {Failed(q)}
         ELSE IF push_back_full(q[queue_number]) THEN {Failed(q)}
         ELSE {Outcome(0, [q EXCEPT ![queue_number] =
                                queue_push_back(q[queue_number], argv[3])],
                       <<>>, Unset)}

\* int cli_remove_from_queue(int argc, char **argv, struct Queue queues[2])
cli_remove_from_queue(argv, q) ==
    IF Len(argv) < 3 THEN {Failed(q)}
    ELSE LET queue_number == cli_get_queue_number(argv[2]) IN
         IF queue_number = -1 THEN {Failed(q)}
         ELSE LET found == queue_find(q[queue_number], argv[3]) IN
              IF ~reads_assert(q[queue_number]) THEN {Asserted(q)}
              ELSE IF found = Unset THEN {Failed(q)}
              ELSE IF ~remove_asserts(q[queue_number], found) THEN {Asserted(q)}
              ELSE {Outcome(0, [q EXCEPT ![queue_number] =
                                     queue_remove(q[queue_number], found)],
                            <<>>, Unset)}

\* int cli_print_size_and_contents(int argc, char **argv, struct Queue queues[2])
cli_print_size_and_contents(argv, q) ==
    IF Len(argv) < 2 THEN {Failed(q)}
    ELSE LET queue_number == cli_get_queue_number(argv[2]) IN
         IF queue_number = -1 THEN {Failed(q)}
         ELSE IF ~reads_assert(q[queue_number]) THEN {Asserted(q)}
         ELSE {Outcome(0, q, <<q[queue_number].size>> \o Logical(q[queue_number]),
                       Unset)}

\* int cli_print_contents(int argc, char **argv, struct Queue queues[2])
cli_print_contents(argv, q) ==
    IF Len(argv) < 2 THEN {Failed(q)}
    ELSE LET queue_number == cli_get_queue_number(argv[2]) IN
         IF queue_number = -1 THEN {Failed(q)}
         ELSE IF ~reads_assert(q[queue_number]) THEN {Asserted(q)}
         ELSE {Outcome(0, q, Logical(q[queue_number]), Unset)}

\* cli_dequeue's #if: queue_pop_back in a QUEUE_MODE_FIFO build,
\* queue_pop_front in a QUEUE_MODE_LIFO build.
cli_dequeue_pops_back(m) == m = QUEUE_MODE_FIFO

\* int cli_dequeue(int argc, char **argv, struct Queue queues[2])
cli_dequeue(m, argv, q) ==
    IF Len(argv) < 2 THEN {Failed(q)}
    ELSE LET queue_number == cli_get_queue_number(argv[2]) IN
         IF queue_number = -1 THEN {Failed(q)}
         ELSE LET queue == q[queue_number] IN
              IF cli_dequeue_pops_back(m)
              THEN IF pop_back_empty(queue) THEN {Failed(q)}
                   ELSE {Outcome(0, [q EXCEPT ![queue_number] = queue_pop_back(queue)],
                                 <<pop_back_value(queue)>>, pop_back_value(queue))}
              ELSE IF pop_front_empty(queue) THEN {Failed(q)}
                   ELSE IF ~get_value_asserts(queue, queue.size - 1) THEN {Asserted(q)}
                   ELSE {Outcome(0, [q EXCEPT ![queue_number] = queue_pop_front(queue)],
                                 <<pop_front_value(queue)>>, pop_front_value(queue))}

\* cli_find_bit: if (bit_number > 32) return -1.
find_bit_rejects(bit_number) == bit_number > 32

\* ((uint32_t)1) << bit_number.  A shift by the width of the type is
\* undefined: the count is taken modulo 32 (mask 1) or the bit is shifted
\* out (mask 0, written here as a shift by 32).
find_bit_shifts(bit_number) ==
    IF bit_number < 32 THEN {bit_number} ELSE {bit_number % 32, bit_number}

\* item & mask, for the mask 1 << shift (0 for shift = 32); the items are
\* below 2^31.
find_bit_set(item, shift) ==
    IF shift < 31 THEN (item \div (2 ^ shift)) % 2 = 1 ELSE FALSE

\* cli_find_bit's loop: the items with item & mask, in offset order.
RECURSIVE find_bit_loop(_, _, _)
find_bit_loop(queue, shift, i) ==
    IF i = queue.size THEN <<>>
    ELSE (IF find_bit_set(queue_get_value(queue, i), shift)
          THEN <<queue_get_value(queue, i)>> ELSE <<>>)
         \o find_bit_loop(queue, shift, i + 1)

\* int cli_find_bit(int argc, char **argv, struct Queue queues[2])
cli_find_bit(argv, q) ==
    IF Len(argv) < 3 THEN {Failed(q)}
    ELSE LET queue_number == cli_get_queue_number(argv[2]) IN
         IF queue_number = -1 THEN {Failed(q)}
         ELSE IF find_bit_rejects(argv[3]) THEN {Failed(q)}
         ELSE IF ~reads_assert(q[queue_number]) THEN {Asserted(q)}
         ELSE {Outcome(0, q, find_bit_loop(q[queue_number], shift, 0), Unset) :
                  shift \in find_bit_shifts(argv[3])}

\* static int cli_merge_queues(struct Queue queues[2]); queue_merge returns, or
\* the process is killed in it (see MergeBody).
cli_merge_queues(q) ==
    IF cli_merge_rejects(q) THEN {Failed(q)}
    ELSE IF ~merge_asserts(merge_total_len(q[0], q[1])) THEN {Asserted(q)}
    ELSE IF ~(reads_assert(q[0]) /\ reads_assert(q[1])) THEN {Asserted(q)}
    ELSE LET merged == [q EXCEPT ![0] = merge_into(q[0], q[1]),
                                 ![1] = merge_other(q[1])]
         IN  {Outcome(0, merged, <<>>, Unset)}
             \cup (IF merge_overflows(merge_total_len(q[0], q[1]))
                   THEN {[Outcome(Unset, p, <<>>, Unset) EXCEPT !.killed = TRUE] :
                            p \in {q, merged}}
                   ELSE {})

\* main's switch (command_id).
cli_switch(m, argv, q) ==
    CASE argv[1] = 0 -> cli_add_to_queue(argv, q)
      [] argv[1] = 1 -> cli_remove_from_queue(argv, q)
      [] argv[1] = 2 -> cli_print_size_and_contents(argv, q)
      [] argv[1] = 3 -> cli_print_contents(argv, q)
      [] argv[1] = 4 -> cli_merge_queues(q)
      [] argv[1] = 5 -> cli_find_bit(argv, q)
      [] argv[1] = 6 -> cli_dequeue(m, argv, q)

(* --- cli.c: main ---------------------------------------------------------- *)

\* `struct Queue queues[2];` in main: automatic storage, never initialised.
\* What it holds is indeterminate.  Tried here: all bytes zero (as queue_init
\* would leave it), and every slot MaxValue with begin at the last slot
\* and size 1 or one past the capacity.
Garbage ==
    {[begin |-> 0, size |-> 0, array |-> [i \in Slots |-> 0]]}
    \cup {[begin |-> QUEUE_MAX_LENGTH - 1, size |-> n,
           array |-> [i \in Slots |-> MaxValue]] : n \in {1, QUEUE_MAX_LENGTH + 1}}

\* queues[k] after load_queue(&queues[k], ...): untouched when fopen fails.
LoadOutcomes(k) ==
    IF files[k] = NoFile THEN Garbage
    ELSE {load_queue(g, files[k]) : g \in Garbage}

\* (mutant) the files written whatever the command returned.
cli_saves_always(r) == TRUE

\* main: if (rc == -1) return 1; otherwise both queues are saved.
cli_saves(r) == r # -1

\* The exit status of a process that abort() ended (a failed assertion).
Aborted == 0 - 3

\* An assertion of queue_get_value failed in one of the two save_queue calls.
SaveAsserted(r) ==
    /\ ~r.killed
    /\ cli_saves(r.rc)
    /\ \E k \in QueueIds : ~reads_assert(r.queues[k])

\* The record of adds and dequeues on queue k as the files carry it from one
\* invocation to the next; nothing is carried by a file that does not exist.
Carried(q) ==
    [k \in QueueIds |-> IF files[k] = NoFile THEN NoRun(q[k].size) ELSE run[k]]

\* What QUEUE_MODE promises of a dequeue after adds to an empty queue: the
\* first value added (FIFO), the last one (LIFO).
ExpectDequeue(m, r) ==
    IF m = QUEUE_MODE_FIFO THEN ExpectFront(r)
    ELSE IF r.base = 0 THEN ExpectBack(r) ELSE Unset

RunDequeue(m, r, size) ==
    IF m = QUEUE_MODE_FIFO THEN RunPopFront(r, size) ELSE RunPopBack(r, size)

RunAfter(m, argv, q, r) ==
    LET pre == Carried(q)
        k == qi'
    IN  IF r.killed \/ r.rc # 0 THEN pre
        ELSE CASE argv[1] = 0 -> [pre EXCEPT ![k] = RunPush(pre[k], q[k].size, argv[3])]
               [] argv[1] = 1 -> [pre EXCEPT ![k] = NoRun(r.queues[k].size)]
               [] argv[1] = 4 -> [j \in QueueIds |-> NoRun(r.queues[j].size)]
               [] argv[1] = 6 -> [pre EXCEPT ![k] = RunDequeue(m, pre[k], r.queues[k].size)]
               [] OTHER -> pre

\* main returning 1 before the queues are declared: argc < 2, or a command
\* cli_command_from_arg rejects.
MainHelp(argv) ==
    /\ op' = "help"
    /\ qi' = Unset
    /\ arg' = Unset
    /\ rc' = -1
    /\ value' = Unset
    /\ status' = 1
    /\ stdout' = <<>>
    /\ crashed' = FALSE
    /\ expect' = Unset
    /\ UNCHANGED <<queues, loaded, files, run>>

\* main from `struct Queue queues[2];` on: both load_queue calls, the
\* switch, and the two save_queue calls unless rc == -1.
MainCommand(name, argv) ==
    \E q0 \in LoadOutcomes(0), q1 \in LoadOutcomes(1) :
        LET q == [k \in QueueIds |-> IF k = 0 THEN q0 ELSE q1] IN
        \/ \E r \in cli_switch(mode, argv, q) :
              /\ op' = name
              /\ qi' = (IF Len(argv) >= 2 /\ argv[1] # 4
                        THEN (IF cli_get_queue_number(argv[2]) = -1 THEN Unset
                              ELSE cli_get_queue_number(argv[2]))
                        ELSE Unset)
              /\ arg' = (IF Len(argv) >= 3 THEN argv[3] ELSE Unset)
              /\ loaded' = q
              /\ queues' = r.queues
              /\ rc' = r.rc
              /\ value' = r.value
              /\ stdout' = r.out
              /\ crashed' = (r.killed \/ SaveAsserted(r))
              /\ status' = (IF r.asserted \/ SaveAsserted(r) THEN Aborted
                            ELSE IF r.killed THEN Unset
                            ELSE IF r.rc = -1 THEN 1 ELSE 0)
              /\ files' = (IF ~r.killed /\ cli_saves(r.rc) /\ ~SaveAsserted(r)
                           THEN [k \in QueueIds |-> save_queue(r.queues[k])]
                           ELSE files)
              /\ run' = RunAfter(mode, argv, q, r)
              /\ expect' = (IF argv[1] = 6 /\ r.rc = 0
                            THEN ExpectDequeue(mode, Carried(q)[qi']) ELSE Unset)
        \/ \* a file of more than QUEUE_MAX_LENGTH values: load_queue writes
           \* past queues[k].array, and the process is killed for it.
           /\ \E k \in QueueIds : files[k] # NoFile /\ load_overflows(files[k])
           /\ op' = name
           /\ qi' = Unset
           /\ arg' = Unset
           /\ loaded' = q
           /\ queues' = q
           /\ rc' = Unset
           /\ value' = Unset
           /\ stdout' = <<>>
           /\ crashed' = TRUE
           /\ status' = Unset
           /\ expect' = Unset
           /\ UNCHANGED <<files, run>>

\* int main(int argc, char **argv): one invocation of the program.
Main(name, argv) ==
    /\ nops' = nops + 1
    /\ IF Len(argv) < 1 \/ cli_command_from_arg(argv[1]) = -1
       THEN MainHelp(argv)
       ELSE MainCommand(name, argv)
    /\ UNCHANGED <<ref, index, destination, mode>>

\* The invocations tried, command by command, MaxRuns of them in a row.
CliHelp ==
    /\ nops < MaxRuns
    /\ \E argv \in {<<>>, <<7>>} : Main("help", argv)

CliAddToQueue ==
    /\ nops < MaxRuns
    /\ \E argv \in {<<0>>} \cup {<<0, a, v>> : a \in QueueArgs, v \in Values} :
          Main("0x00", argv)

CliRemoveFromQueue ==
    /\ nops < MaxRuns
    /\ \E argv \in {<<1>>} \cup {<<1, a, v>> : a \in QueueArgs, v \in Values} :
          Main("0x01", argv)

CliPrintSizeAndContents ==
    /\ nops < MaxRuns
    /\ \E argv \in {<<2>>} \cup {<<2, a>> : a \in QueueArgs} : Main("0x02", argv)

CliPrintContents ==
    /\ nops < MaxRuns
    /\ \E argv \in {<<3>>} \cup {<<3, a>> : a \in QueueArgs} : Main("0x03", argv)

CliMerge ==
    /\ nops < MaxRuns
    /\ Main("0x04", <<4>>)

CliFindBit ==
    /\ nops < MaxRuns
    /\ \E argv \in {<<5>>, <<5, 1>>} \cup {<<5, a, b>> : a \in QueueArgs, b \in Bits} :
          Main("0x05", argv)

CliDequeue ==
    /\ nops < MaxRuns
    /\ \E argv \in {<<6>>} \cup {<<6, a>> : a \in QueueArgs} : Main("0x06", argv)

NextCli ==
    \/ CliHelp
    \/ CliAddToQueue
    \/ CliRemoveFromQueue
    \/ CliPrintSizeAndContents
    \/ CliPrintContents
    \/ CliMerge
    \/ CliFindBit
    \/ CliDequeue

\* A file of QUEUE_MAX_LENGTH values, as QUEUE_MAX_LENGTH adds leave it.
FullFile ==
    save_queue([begin |-> 0, size |-> QUEUE_MAX_LENGTH,
                array |-> [i \in Slots |-> (i % MaxValue) + 1]])

\* Before the first invocation: each file drawn from fs, the build from ms.
InitCliWith(fs, ms) ==
    /\ queues = [k \in QueueIds |-> queue_init]
    /\ ref = [k \in QueueIds |-> <<>>]
    /\ op = "init"
    /\ qi = Unset
    /\ arg = Unset
    /\ rc = Unset
    /\ value = Unset
    /\ index = Unset
    /\ destination = <<>>
    /\ crashed = FALSE
    /\ nops = 0
    /\ files \in [QueueIds -> fs]
    /\ run = [k \in QueueIds |-> NoRun(load_count(files[k]))]
    /\ expect = Unset
    /\ loaded = [k \in QueueIds |-> queue_init]
    /\ status = Unset
    /\ stdout = <<>>
    /\ mode \in ms

\* Each file missing, empty or full; the default build.
InitCli == InitCliWith({NoFile, <<>>, FullFile}, {QUEUE_MODE})

SpecCli == InitCli /\ [][NextCli]_vars

\* Both files exist before the first invocation, empty or full; either build.
InitCliFiles == InitCliWith({<<>>, FullFile}, {QUEUE_MODE_FIFO, QUEUE_MODE_LIFO})

SpecCliFiles == InitCliFiles /\ [][NextCli]_vars

(* --- cli.c: save_queue and load_queue on their own ------------------------ *)

\* Every well-formed queue: any begin, any size up to the capacity, any values.
WellFormed ==
    {[begin |-> b, size |-> n, array |-> a] :
        b \in Slots, n \in 0 .. QUEUE_MAX_LENGTH, a \in [Slots -> Values]}

\* queues[0] is any well-formed queue; no file exists yet.
InitSaveLoad ==
    /\ queues \in {[k \in QueueIds |-> IF k = 0 THEN q ELSE queue_init] : q \in WellFormed}
    /\ ref = [k \in QueueIds |-> Logical(queues[k])]
    /\ op = "init"
    /\ qi = 0
    /\ arg = Unset
    /\ rc = Unset
    /\ value = Unset
    /\ index = Unset
    /\ destination = <<>>
    /\ crashed = FALSE
    /\ nops = 0
    /\ run = [k \in QueueIds |-> NoRun(queues[k].size)]
    /\ expect = Unset
    /\ files = [k \in QueueIds |-> NoFile]
    /\ loaded = [k \in QueueIds |-> queue_init]
    /\ status = Unset
    /\ stdout = <<>>
    /\ mode = QUEUE_MODE

\* save_queue(&queues[k], file k)
SaveQueue(k) ==
    /\ op' = "save_queue"
    /\ qi' = k
    /\ files' = [files EXCEPT ![k] = save_queue(queues[k])]
    /\ UNCHANGED <<queues, ref, arg, rc, value, index, destination, crashed, nops,
                   run, expect, loaded, status, stdout, mode>>

\* load_queue(&loaded[k], file k), loaded[k] being an uninitialised struct or
\* the one an earlier load filled.
LoadQueue(k) ==
    /\ op' = "load_queue"
    /\ qi' = k
    /\ IF files[k] = NoFile
       THEN UNCHANGED loaded
       ELSE \E g \in Garbage \cup {loaded[k]} :
               loaded' = [loaded EXCEPT ![k] = load_queue(g, files[k])]
    /\ UNCHANGED <<queues, ref, arg, rc, value, index, destination, crashed, nops,
                   run, expect, files, status, stdout, mode>>

NextSaveLoad ==
    \/ \E k \in QueueIds : SaveQueue(k)
    \/ \E k \in QueueIds : LoadQueue(k)

SpecSaveLoad == InitSaveLoad /\ [][NextSaveLoad]_vars

(* --- the claims ---------------------------------------------------------- *)

Wrapped(queue) == queue.begin + queue.size > QUEUE_MAX_LENGTH

\* C1: in every reachable state, of either queue, 0 <= size <= N and
\* 0 <= begin < N, also when size = 0.
C1_SizeAndBeginInRange ==
    \A k \in QueueIds :
        /\ 0 <= queues[k].size /\ queues[k].size <= QUEUE_MAX_LENGTH
        /\ 0 <= queues[k].begin /\ queues[k].begin < QUEUE_MAX_LENGTH

\* A queue emptied by a pop while begin is away from 0, at the last slot.
C1_Witness ==
    /\ op \in {"pop_back", "pop_front"} /\ rc = 0
    /\ queues[qi].size = 0
    /\ queues[qi].begin = QUEUE_MAX_LENGTH - 1

\* C2: what queue_copy_to writes is the reference sequence, cell by cell the
\* array cell at (begin + i) mod N, whatever the calls made so far; and the
\* test_array a queue_copy_to call filled is that sequence.
C2_CopyOutIsReference ==
    /\ \A k \in QueueIds :
          /\ queue_copy_to(queues[k]) = ref[k]
          /\ Len(ref[k]) = queues[k].size
          /\ \A i \in 0 .. (queues[k].size - 1) :
                ref[k][i + 1]
                    = queues[k].array[(queues[k].begin + i) % QUEUE_MAX_LENGTH]
    /\ op = "copy_to" => destination = ref[qi]

\* A copy of a range that passes slot N-1, next to a stale slot that holds a
\* value the copy does not contain at that place.
C2_Witness ==
    /\ op = "copy_to"
    /\ Wrapped(queues[qi])
    /\ queues[qi].size >= 2
    /\ destination = ref[qi]
    /\ destination[1] # destination[2]
    /\ \E i \in Slots :
          /\ \A j \in 0 .. (queues[qi].size - 1) :
                i # (queues[qi].begin + j) % QUEUE_MAX_LENGTH
          /\ queues[qi].array[i] # 0

\* C3: queue_push_back on a full queue returns -1 and changes no field and no
\* slot of the queue; on a queue that is not full it returns 0.
C3_PushBackOnFull ==
    [][op' = "push_back" =>
          IF queues[qi'].size = QUEUE_MAX_LENGTH
          THEN rc' = -1 /\ queues' = queues
          ELSE rc' = 0 /\ queues'[qi'].size = queues[qi'].size + 1]_vars

C3_Witness ==
    /\ op = "push_back" /\ rc = -1
    /\ queues[qi].size = QUEUE_MAX_LENGTH
    /\ Wrapped(queues[qi])

\* C4: after push_back of v1 .. vk on a queue of any size, the next k pop_back
\* calls succeed and return vk, ..., v1; and every successful pop_back returns
\* the element at offset 0, the head of the reference sequence.
C4_LifoRoundTrip ==
    [][op' = "pop_back" =>
          /\ expect' # Unset => (rc' = 0 /\ value' = expect')
          /\ rc' = 0 => value' = Head(ref[qi'])]_vars

\* The second pop_back of a run of two pushes made on a non-empty queue.
C4_Witness ==
    /\ op = "pop_back" /\ rc = 0
    /\ expect # Unset /\ value = expect
    /\ run[qi].popb = 2 /\ Len(run[qi].pushed) = 2
    /\ run[qi].pushed[1] # run[qi].pushed[2]
    /\ run[qi].base > 0

\* C5: from an empty queue, at any begin, after push_back of v1 .. vk the next
\* k pop_front calls succeed and return v1, ..., vk; and every successful
\* pop_front returns the element at offset size-1, the last of the reference.
C5_FifoRoundTrip ==
    [][op' = "pop_front" =>
          /\ expect' # Unset => (rc' = 0 /\ value' = expect')
          /\ rc' = 0 => value' = ref[qi'][Len(ref[qi'])]]_vars

\* The second pop_front of a run of two pushes that began on an empty queue
\* whose begin was not 0.
C5_Witness ==
    /\ op = "pop_front" /\ rc = 0
    /\ expect # Unset /\ value = expect
    /\ run[qi].popf = 2 /\ Len(run[qi].pushed) = 2
    /\ run[qi].pushed[1] # run[qi].pushed[2]
    /\ run[qi].base = 0
    /\ queues[qi].begin # QUEUE_MAX_LENGTH - 2

\* C6: queue_remove(queue, k), k < size, leaves the old logical sequence
\* without its element at offset k, size one less and begin as it was.
C6_RemoveDeletesOne ==
    [][op' = "remove" =>
          LET old == Logical(queues[qi'])
              new == Logical(queues'[qi'])
          IN  /\ queues'[qi'].size = queues[qi'].size - 1
              /\ queues'[qi'].begin = queues[qi'].begin
              /\ \A i \in 1 .. Len(new) :
                    new[i] = IF i - 1 < arg' THEN old[i] ELSE old[i + 1]
              /\ \A j \in QueueIds \ {qi'} : queues'[j] = queues[j]]_vars

\* A removal whose shifting loop went from slot N-1 on to slot 0 and moved
\* two different values.
C6_Witness ==
    /\ op = "remove"
    /\ queues[qi].begin + arg <= QUEUE_MAX_LENGTH - 1
    /\ QUEUE_MAX_LENGTH - 1 < queues[qi].begin + queues[qi].size
    /\ queues[qi].size >= arg + 2
    /\ queue_get_value(queues[qi], arg) # queue_get_value(queues[qi], arg + 1)

\* The zipper as the claim words it: with m the smaller size, offsets 2k and
\* 2k + 1 (k < m) are a's and b's elements at offset k, then the longer one's
\* elements from offset m on.
MinLen(a, b) == IF Len(a) < Len(b) THEN Len(a) ELSE Len(b)
Interleave(a, b) ==
    LET m == MinLen(a, b)
        long == IF Len(a) >= Len(b) THEN a ELSE b
    IN  [i \in 1 .. (Len(a) + Len(b)) |->
            IF i <= 2 * m
            THEN IF i % 2 = 1 THEN a[(i + 1) \div 2] ELSE b[i \div 2]
            ELSE long[i - m]]

\* A step in which queue_merge was entered (cli_merge_queues did not reject).
MergeEntered == op' \in {"merge", "cli_merge"} /\ rc' # -1

\* C7: queue_merge on two queues with size + size <= N returns leaving the
\* first queue with the zipper interleave, begin = 0, size the sum, and the
\* second queue with size 0.
C7_MergeLeavesZipper ==
    [][MergeEntered =>
          /\ ~crashed'
          /\ Logical(queues'[0]) = Interleave(Logical(queues[0]), Logical(queues[1]))
          /\ queues'[0].begin = 0
          /\ queues'[0].size = queues[0].size + queues[1].size
          /\ queues'[1].size = 0]_vars

\* What does hold of queue_merge: whenever it returns, it has left the zipper.
MergeLeavesZipperIfItReturns ==
    [][(MergeEntered /\ ~crashed') =>
          /\ Logical(queues'[0]) = Interleave(Logical(queues[0]), Logical(queues[1]))
          /\ queues'[0].begin = 0
          /\ queues'[0].size = queues[0].size + queues[1].size
          /\ queues'[1].size = 0
          /\ queues'[1].begin = queues[1].begin
          /\ queues'[1].array = queues[1].array]_vars

\* A merge that returned with three elements or more, not all equal.
MergeReturned_Witness ==
    /\ op = "merge" /\ ~crashed
    /\ queues[0].size >= 3
    /\ queues[1].size = 0
    /\ \E i, j \in 1 .. queues[0].size : ref[0][i] # ref[0][j]

C9_MergeAcceptedUpToCapacity ==
    [][op' = "cli_merge" =>
          /\ queues[0].size + queues[1].size <= QUEUE_MAX_LENGTH => rc' # -1
          /\ queues[0].size + queues[1].size = QUEUE_MAX_LENGTH =>
                /\ rc' = 0
                /\ queues'[0].size = QUEUE_MAX_LENGTH
                /\ queues'[1].size = 0]_vars

\* C10: a pop on an empty queue returns -1, writes no value and changes no
\* field and no slot; a pop on a non-empty queue returns 0 and takes one
\* element off.
C10_PopOnEmpty ==
    [][op' \in {"pop_back", "pop_front"} =>
          IF queues[qi'].size = 0
          THEN rc' = -1 /\ value' = Unset /\ queues' = queues
          ELSE rc' = 0 /\ queues'[qi'].size = queues[qi'].size - 1]_vars

\* Both pops refused on a queue that was used before: pop_front on one whose
\* begin is not 0.
C10_Witness ==
    /\ op = "pop_front" /\ rc = -1 /\ value = Unset
    /\ queues[qi].size = 0
    /\ queues[qi].begin # 0
    /\ \E i \in Slots : queues[qi].array[i] # 0

\* C11: queue_find returns 0 exactly when the value is among the logical
\* elements (the reference sequence), with the lowest such offset in *index;
\* otherwise -1 with *index unwritten; and it changes neither queue.
C11_FindFirstLogical ==
    [][op' = "find" =>
          LET r == ref[qi']
              hits == {i \in 1 .. Len(r) : r[i] = arg'}
          IN  /\ rc' = (IF hits = {} THEN -1 ELSE 0)
              /\ hits = {} => index' = Unset
              /\ hits # {} => /\ index' + 1 \in hits
                              /\ \A i \in hits : index' + 1 <= i
              /\ queues' = queues]_vars

\* A search that fails for a value a stale slot of the queue still holds.
C11_Witness ==
    /\ op = "find" /\ rc = -1
    /\ queues[qi].size >= 1
    /\ \E i \in Slots : queues[qi].array[i] = arg

\* A search that succeeds at an offset above 0 in a queue holding the value twice.
C11_WitnessDuplicate ==
    /\ op = "find" /\ rc = 0 /\ index >= 1
    /\ \E i \in 1 .. Len(ref[qi]) : i > index + 1 /\ ref[qi][i] = arg

\* C12: in queue_merge every cell of new_queue_array that is written, and that
\* the final memcpy reads, lies inside the block malloc returned.
C12_MergeBufferLargeEnough ==
    [][MergeEntered =>
          LET total_len == merge_total_len(queues[0], queues[1])
          IN  \A j \in 0 .. (total_len - 1) :
                  (j + 1) * SizeofUint32 <= malloc_bytes(total_len)]_vars

\* C13: queue_copy_to changes neither queue, and a second call right after
\* the first, on the same queue, fills its test_array with the same values.
C13_CopyOutTwice ==
    [][op' = "copy_to" =>
          /\ queues' = queues
          /\ (op = "copy_to" /\ qi = qi') => destination' = destination]_vars

\* The second of two copies in a row of a wrapped range of two or more cells.
C13_Witness ==
    /\ op = "copy_to" /\ arg = 1
    /\ Wrapped(queues[qi])
    /\ queues[qi].size >= 2
    /\ Len(destination) = queues[qi].size

\* C19: a successful queue_push_back moves begin one slot back (N-1 from 0),
\* writes the value into array[begin] and into no other slot, so the value is
\* at offset 0 and the element that was at offset i is at offset i + 1, in the
\* slot it was in.
C19_PushBackFrame ==
    [][(op' = "push_back" /\ rc' = 0) =>
          LET old == queues[qi']
              new == queues'[qi']
          IN  /\ new.begin = (IF old.begin = 0 THEN QUEUE_MAX_LENGTH - 1
                                               ELSE old.begin - 1)
              /\ new.array[new.begin] = arg'
              /\ \A i \in Slots \ {new.begin} : new.array[i] = old.array[i]
              /\ queue_get_value(new, 0) = arg'
              /\ \A i \in 0 .. (old.size - 1) :
                    /\ (new.begin + i + 1) % QUEUE_MAX_LENGTH
                          = (old.begin + i) % QUEUE_MAX_LENGTH
                    /\ queue_get_value(new, i + 1) = queue_get_value(old, i)
              /\ \A j \in QueueIds \ {qi'} : queues'[j] = queues[j]]_vars

\* A push that took begin from 0 to N-1 on a queue that held two elements.
C19_Witness ==
    /\ op = "push_back" /\ rc = 0
    /\ queues[qi].begin = QUEUE_MAX_LENGTH - 1
    /\ queues[qi].size >= 3
    /\ queue_get_value(queues[qi], 0) # queue_get_value(queues[qi], 1)

\* C20: a successful queue_pop_front only decrements size; a successful
\* queue_pop_back only advances begin (0 from N-1) and decrements size, what
\* remains being the old sequence without its offset-0 element.  Neither
\* changes a slot.
C20_PopFrame ==
    [][(op' \in {"pop_back", "pop_front"} /\ rc' = 0) =>
          LET old == queues[qi']
              new == queues'[qi']
          IN  /\ new.array = old.array
              /\ new.size = old.size - 1
              /\ op' = "pop_front" =>
                    /\ new.begin = old.begin
                    /\ \A i \in 0 .. (new.size - 1) :
                          queue_get_value(new, i) = queue_get_value(old, i)
              /\ op' = "pop_back" =>
                    /\ new.begin = (IF old.begin = QUEUE_MAX_LENGTH - 1 THEN 0
                                                                        ELSE old.begin + 1)
                    /\ \A i \in 0 .. (new.size - 1) :
                          queue_get_value(new, i) = queue_get_value(old, i + 1)
              /\ \A j \in QueueIds \ {qi'} : queues'[j] = queues[j]]_vars

\* A pop_back that took begin from N-1 to 0 and left an element behind.
C20_Witness ==
    /\ op = "pop_back" /\ rc = 0
    /\ queues[qi].begin = 0
    /\ queues[qi].size >= 1
    /\ queues[qi].array[QUEUE_MAX_LENGTH - 1] # queues[qi].array[0]

\* C15: loading the file a queue was saved to, into any other struct Queue,
\* gives begin = 0, the same size and the same logical sequence from slot 0
\* on, and saving the loaded queue writes the same bytes again.
C15_SaveLoadRoundTrip ==
    [][(op' = "load_queue" /\ files[qi'] # NoFile) =>
          LET saved == queues[qi']
              reloaded == loaded'[qi']
          IN  /\ Len(files[qi']) = SizeofUint32 * saved.size
              /\ reloaded.begin = 0
              /\ reloaded.size = saved.size
              /\ Logical(reloaded) = ref[qi']
              /\ \A i \in 1 .. reloaded.size : reloaded.array[i - 1] = ref[qi'][i]
              /\ save_queue(reloaded) = files[qi']]_vars

\* A wrapped queue of three or more values, not all equal, saved and loaded
\* into a struct whose slots held other values: the file is not its storage
\* order, and a slot past the loaded size kept what the struct held.
C15_Witness ==
    /\ op = "load_queue"
    /\ files[qi] # NoFile
    /\ Wrapped(queues[qi])
    /\ queues[qi].size >= 3
    /\ queues[qi].size < QUEUE_MAX_LENGTH
    /\ queues[qi].array[0] # queue_get_value(queues[qi], 0)
    /\ loaded[qi].size = queues[qi].size
    /\ loaded[qi].array[QUEUE_MAX_LENGTH - 1] = MaxValue
    /\ queues[qi].array[QUEUE_MAX_LENGTH - 1] # MaxValue

\* The commands main dispatches, by the name it was given.
CommandOps == {"0x00", "0x01", "0x02", "0x03", "0x04", "0x05", "0x06"}

\* A sequence of values as a file holds it: four bytes each, first value first.
FileOf(seq) ==
    [j \in 1 .. (SizeofUint32 * Len(seq)) |->
        ToBytes(seq[((j - 1) \div SizeofUint32) + 1])[((j - 1) % SizeofUint32) + 1]]

\* C14: an invocation exits 0 exactly when its command returned 0, and then
\* both files hold the logical sequences of the two queues as the command
\* left them; in every other case (help, a bad or missing argument, add on a
\* full queue, remove of an absent value, dequeue of an empty queue, a
\* rejected merge, a killed process) neither file is touched.
C14_SavedOnlyOnSuccess ==
    [][op' \in CommandOps \cup {"help"} =>
          /\ status' = 0 <=> (op' \in CommandOps /\ rc' = 0)
          /\ status' = 0 => \A k \in QueueIds : files'[k] = FileOf(Logical(queues'[k]))
          /\ status' # 0 => files' = files
          /\ rc' = -1 => status' = 1
          /\ (op' \in CommandOps \ {"0x04"} /\ qi' = Unset /\ ~crashed') => status' = 1
          /\ (op' = "0x00" /\ qi' # Unset /\ loaded'[qi'].size = QUEUE_MAX_LENGTH)
                => status' = 1
          /\ (op' = "0x06" /\ qi' # Unset /\ loaded'[qi'].size = 0) => status' = 1
          /\ (op' = "0x01" /\ qi' # Unset
                /\ \A i \in 1 .. loaded'[qi'].size : Logical(loaded'[qi'])[i] # arg')
                => status' = 1]_vars

\* An add on a full queue: exit status 1, the queue's file as it was and the
\* other file, missing before, still missing.
C14_Witness ==
    /\ op = "0x00" /\ rc = -1 /\ status = 1
    /\ qi # Unset
    /\ loaded[qi].size = QUEUE_MAX_LENGTH
    /\ files[qi] = FullFile
    /\ files[1 - qi] = NoFile

\* A successful add to a queue that held values: both files written.
C14_WitnessSaved ==
    /\ op = "0x00" /\ rc = 0 /\ status = 0
    /\ loaded[qi].size >= 1
    /\ files[qi] = FileOf(<<arg>> \o Logical(loaded[qi]))
    /\ files[1 - qi] # NoFile

\* C16: after adds of v1 .. vk to an empty queue, the dequeues return
\* v1, v2, .. in a QUEUE_MODE_FIFO build and vk, v(k-1), .. in a
\* QUEUE_MODE_LIFO build.
C16_DequeueHonoursMode ==
    [][(op' = "0x06" /\ rc' = 0 /\ expect' # Unset) => value' = expect']_vars

\* C17: a queue whose file cannot be opened is the empty queue of queue_init
\* (size 0, begin 0) when the command is dispatched.
C17_MissingFileIsEmptyQueue ==
    [][(op' \in CommandOps /\ ~crashed') =>
          \A k \in QueueIds :
              files[k] = NoFile => loaded'[k].size = 0 /\ loaded'[k].begin = 0]_vars

\* Bit b of v, bits numbered from 1 (mask 2^(b-1)); the values are below 2^31.
HasBit(v, b) == IF b <= 31 THEN (v \div (2 ^ (b - 1))) % 2 = 1 ELSE FALSE

\* C18: command 0x05 accepts exactly the bit numbers 1 .. 32, prints the
\* elements whose bit of that number is 1, in offset order, and changes
\* neither queue.
C18_FindBitNumbersFromOne ==
    [][(op' = "0x05" /\ qi' # Unset /\ arg' # Unset) =>
          LET Test(v) == HasBit(v, arg') IN
          /\ rc' = 0 <=> (1 <= arg' /\ arg' <= 32)
          /\ rc' = 0 => stdout' = SelectSeq(Logical(loaded'[qi']), Test)
          /\ queues' = loaded']_vars

\* C21: command 0x01 <queue> <element> on a queue loaded from its file: when
\* the element is in the queue, the occurrence at the lowest offset is deleted,
\* every other element (later duplicates included) keeps its order, and the
\* command returns 0; when it is not, the command returns -1 and the queue is
\* as loaded.  The other queue is as loaded in both cases.
C21_RemoveLowestOccurrence ==
    [][(op' = "0x01" /\ qi' # Unset /\ arg' # Unset /\ ~crashed') =>
          LET before == Logical(loaded'[qi'])
              after == Logical(queues'[qi'])
              hits == {i \in 1 .. Len(before) : before[i] = arg'}
              first == CHOOSE i \in hits : \A j \in hits : i <= j
          IN  /\ queues'[1 - qi'] = loaded'[1 - qi']
              /\ hits = {} => rc' = -1 /\ queues'[qi'] = loaded'[qi']
              /\ hits # {} =>
                    /\ rc' = 0
                    /\ after = SubSeq(before, 1, first - 1)
                                  \o SubSeq(before, first + 1, Len(before))
                    /\ queues'[qi'].begin = loaded'[qi'].begin]_vars

\* A remove of a value the queue held at offset 0 and again further on, with
\* another value between: deleting the later one would leave another sequence.
C21_Witness ==
    /\ op = "0x01" /\ rc = 0 /\ status = 0
    /\ qi # Unset
    /\ Len(Logical(loaded[qi])) >= 3
    /\ Logical(loaded[qi])[1] = arg
    /\ Logical(loaded[qi])[2] # arg
    /\ Logical(loaded[qi])[3] = arg
    /\ files[qi] = FileOf(Tail(Logical(loaded[qi])))

\* C22: with both queues loaded from files of at most N values, no command
\* ends in a failed assertion of queue_remove, queue_get_value or queue_merge;
\* queue_merge is entered only with a combined size of at most N; and the
\* queues a command leaves have 0 <= size <= N and 0 <= begin < N.
C22_NoPreconditionViolated ==
    [][op' \in CommandOps =>
          /\ status' # Aborted
          /\ (op' = "0x04" /\ rc' # -1) =>
                loaded'[0].size + loaded'[1].size <= QUEUE_MAX_LENGTH
          /\ \A k \in QueueIds :
                /\ 0 <= queues'[k].size /\ queues'[k].size <= QUEUE_MAX_LENGTH
                /\ queues'[k].begin \in Slots]_vars

\* A merge of two queues that both held values, entered and returned.
C22_Witness ==
    /\ op = "0x04" /\ rc = 0 /\ status = 0
    /\ loaded[0].size >= 1
    /\ loaded[1].size >= 1
    /\ queues[0].size = loaded[0].size + loaded[1].size

\* C23: after every invocation each file that exists holds at most N values,
\* so load_queue never stores a value past the end of queues[k].array.
C23_FilesWithinCapacity ==
    \A k \in QueueIds :
        files[k] # NoFile =>
            /\ load_count(files[k]) <= QUEUE_MAX_LENGTH
            /\ ~load_overflows(files[k])

====
